---- MODULE Spec2Model ----
(***************************************************************************)
(* A model of the scripts of OliveAIWEB that shell out to node/npm and git: *)
(*   scripts/test-frontend.py    the check runner (run_command + main)      *)
(*   scripts/git-push.py         add / commit / push with a fallback push   *)
(*   scripts/push-to-github.py   add / commit / push under one try block    *)
(* One behaviour of the model is one run of one of the scripts.  The        *)
(* external tools are the environment: every command the scripts launch     *)
(* ends with an exit status, or subprocess.run raises instead of returning. *)
(***************************************************************************)
EXTENDS Integers, Sequences, FiniteSets, TLC

VARIABLES
    script,        \* which script this run executes
    pc,            \* position of the script
    n,             \* test-frontend.py: number of declared checks (a prefix of Checklist)
    budget,        \* test-frontend.py: timeouts/exceptions the environment may still cause
    npmInstalled,  \* environment: is the npm executable on PATH
    staged,        \* environment: does the index differ from HEAD after staging
    idx,           \* test-frontend.py: index of the check main() is at
    results,       \* test-frontend.py: the results dict, in insertion order
    started,       \* test-frontend.py: checks handed to subprocess.run, in order
    alive,         \* external processes alive: <<check, "sh">> and <<check, "job">>
    outcomes,      \* test-frontend.py: what happened to each finished check
    trace,         \* git scripts: the git commands run so far, with their outcomes
    passed,        \* test-frontend.py: main()'s passed
    total,         \* test-frontend.py: main()'s total
    banner,        \* the closing message printed
    exitCode       \* the process's exit code, -1 while it runs

vars == <<script, pc, n, budget, npmInstalled, staged, idx, results, started,
          alive, outcomes, trace, passed, total, banner, exitCode>>

\* Bounds of the model.
MaxChecks == 3    \* checklists of 0..MaxChecks checks are run with every combination of outcomes
MaxFaults == 1    \* timeouts/exceptions per run of the full shipped checklist

TF  == "test-frontend.py"
P2G == "push-to-github.py"
GP  == "git-push.py"
Scripts == {TF, P2G, GP}

(***************************************************************************)
(* test-frontend.py: the declared checks.  A command string is an and-or    *)
(* list of pipelines; op is the connector in front of the pipeline.         *)
(* Redirections (2>&1, 2>/dev/null) do not change an exit status and are    *)
(* left out of the stage names.                                            *)
(***************************************************************************)
Checklist == <<
    [name |-> "node_check",
     cmd  |-> << [op |-> "",   pipe |-> <<"node --version">>],
                 [op |-> "&&", pipe |-> <<"npm --version">>] >>],
    [name |-> "project_structure",
     cmd  |-> << [op |-> "",   pipe |-> <<"ls -la", "grep -E package.json|tsconfig.json|...">>] >>],
    [name |-> "env_check",
     cmd  |-> << [op |-> "",   pipe |-> <<"test -f .env.local">>],
                 [op |-> "&&", pipe |-> <<"echo .env.local found">>],
                 [op |-> "||", pipe |-> <<"echo .env.local missing">>] >>],
    [name |-> "deps_check",
     cmd  |-> << [op |-> "",   pipe |-> <<"npm list --depth=0", "head -20">>] >>],
    [name |-> "lint",
     cmd  |-> << [op |-> "",   pipe |-> <<"npm run lint", "head -50">>] >>],
    [name |-> "build",
     cmd  |-> << [op |-> "",   pipe |-> <<"npm run build", "tail -50">>] >>],
    [name |-> "build_output",
     cmd  |-> << [op |-> "",   pipe |-> <<"test -d .next">>],
                 [op |-> "&&", pipe |-> <<"echo .next build directory created">>],
                 [op |-> "||", pipe |-> <<"echo Build directory missing">>] >>],
    [name |-> "api_services",
     cmd  |-> << [op |-> "",   pipe |-> <<"ls -la services/api/", "grep -E .ts$">>] >>],
    [name |-> "types_check",
     cmd  |-> << [op |-> "",   pipe |-> <<"test -f types/api.ts">>],
                 [op |-> "&&", pipe |-> <<"wc -l types/api.ts">>],
                 [op |-> "&&", pipe |-> <<"echo API types file valid">>],
                 [op |-> "||", pipe |-> <<"echo Types file missing">>] >>]
>>

NumChecks == Len(Checklist)

\* The numbers of declared checks the model runs: short checklists and the shipped one.
DeclaredCounts == (0 .. MaxChecks) \cup {NumChecks}

Range(s) == {s[i] : i \in DOMAIN s}

StagesOf(k) == UNION {Range(Checklist[k].cmd[i].pipe) : i \in DOMAIN Checklist[k].cmd}

\* Stages the shell runs itself, without a child process.
Builtins == {"test -f .env.local", "echo .env.local found", "echo .env.local missing",
             "test -d .next", "echo .next build directory created",
             "echo Build directory missing", "test -f types/api.ts",
             "echo API types file valid", "echo Types file missing"}

NpmStages == {"npm --version", "npm list --depth=0", "npm run lint", "npm run build"}

\* Stages whose exit status depends on the project: 0 or 1.
Deciders == {"node --version", "grep -E package.json|tsconfig.json|...",
             "test -f .env.local", "test -d .next", "grep -E .ts$",
             "test -f types/api.ts"}

\* The exit statuses a stage can end with.  A missing executable makes the
\* shell report 127 for the stage; echo, head, tail, ls and wc end with 0.
StageStatus(s, npm) ==
    IF s \in NpmStages THEN (IF npm THEN {0, 1} ELSE {127})
    ELSE IF s \in Deciders THEN {0, 1}
    ELSE {0}

\* Does the shell run the next pipeline of an and-or list, given the status so far.
Runs(op, s) == \/ op = ""
               \/ op = "&&" /\ s = 0
               \/ op = "||" /\ s # 0

\* The exit status of a pipeline is the status of its last stage.
PipeStatus(pipe, st) == st[pipe[Len(pipe)]]

\* The exit status sh -c reports for an and-or list, st giving each stage's status.
RECURSIVE ListStatus(_, _, _, _)
ListStatus(list, i, s, st) ==
    IF i > Len(list) THEN s
    ELSE ListStatus(list, i + 1,
                    IF Runs(list[i].op, s) THEN PipeStatus(list[i].pipe, st) ELSE s,
                    st)

\* The stages the shell actually ran.
RECURSIVE RanStages(_, _, _, _)
RanStages(list, i, s, st) ==
    IF i > Len(list) THEN {}
    ELSE LET runs == Runs(list[i].op, s)
             s2   == IF runs THEN PipeStatus(list[i].pipe, st) ELSE s
         IN  (IF runs THEN Range(list[i].pipe) ELSE {}) \cup RanStages(list, i + 1, s2, st)

ShellStatus(k, st) == ListStatus(Checklist[k].cmd, 1, 0, st)

\* The statuses observed in one run of check k: -1 for a stage that did not run.
Observed(k, st) ==
    LET ran == RanStages(Checklist[k].cmd, 1, 0, st)
    IN  [s \in StagesOf(k) |-> IF s \in ran THEN st[s] ELSE -1]

NotRun(k) == [s \in StagesOf(k) |-> -1]

\* Every way the stages of check k can end in this environment.
StatusChoices(k, npm) ==
    {Observed(k, st) : st \in {f \in [StagesOf(k) -> {0, 1, 127}] :
                                 \A s \in StagesOf(k) : f[s] \in StageStatus(s, npm)}}

\* The processes of check k: the shell subprocess.run starts, and the job
\* (the external stages of its pipelines) the shell starts.
Procs(k) == {<<k, "sh">>} \cup (IF StagesOf(k) \subseteq Builtins THEN {} ELSE {<<k, "job">>})

\* DictSet with a fault: only passing results are stored.
DictSetPassingOnly(d, key, v) ==
    IF ~v THEN d
    ELSE IF \E i \in DOMAIN d : d[i].name = key
    THEN [i \in DOMAIN d |-> IF d[i].name = key THEN [name |-> key, ok |-> v] ELSE d[i]]
    ELSE Append(d, [name |-> key, ok |-> v])

\* results[key] = v on a dict kept in insertion order.
DictSet(d, key, v) ==
    IF \E i \in DOMAIN d : d[i].name = key
    THEN [i \in DOMAIN d |-> IF d[i].name = key THEN [name |-> key, ok |-> v] ELSE d[i]]
    ELSE Append(d, [name |-> key, ok |-> v])

HasKey(d, key) == \E i \in DOMAIN d : d[i].name = key
Lookup(d, key) == (CHOOSE i \in DOMAIN d : d[i].name = key)

\* ReturnValue with a fault: only "command not found" counts as a failure.
ReturnValueLenient(rc) == rc # 127

\* run_command's return value when subprocess.run returned.
ReturnValue(rc) == rc = 0

\* CountPassed with a fault: every result is counted.
CountPassedAll(d) == Len(d)

\* sum(1 for v in results.values() if v)
CountPassed(d) == Cardinality({i \in DOMAIN d : d[i].ok})


Outcome(kind, rc, st) == [kind |-> kind, rc |-> rc, st |-> st]

CheckName(k) == Checklist[k].name

(***************************************************************************)
(* test-frontend.py                                                         *)
(***************************************************************************)

\* os.chdir(PROJECT_ROOT) at import succeeds; main() starts with results = {}.
chdir_ok ==
    /\ script = TF /\ pc = "import"
    /\ pc' = "call"
    /\ UNCHANGED <<script, n, budget, npmInstalled, staged, idx, results, started,
                   alive, outcomes, trace, passed, total, banner, exitCode>>

\* os.chdir(PROJECT_ROOT) raises (the directory does not exist): nothing
\* catches it, the interpreter prints the traceback and exits with code 1.
chdir_raises ==
    /\ script = TF /\ pc = "import"
    /\ pc' = "crashed"
    /\ exitCode' = 1
    /\ UNCHANGED <<script, n, budget, npmInstalled, staged, idx, results, started,
                   alive, outcomes, trace, passed, total, banner>>

\* run_command: subprocess.run starts sh -c cmd, which starts its job.
run_command_start ==
    /\ script = TF /\ pc = "call" /\ idx <= n
    /\ started' = Append(started, idx)
    /\ alive' = alive \cup Procs(idx)
    /\ pc' = "running"
    /\ UNCHANGED <<script, n, budget, npmInstalled, staged, idx, results,
                   outcomes, trace, passed, total, banner, exitCode>>

\* run_command: subprocess.run raises something other than TimeoutExpired
\* (the shell could not be started): except Exception, return False.
run_command_exception ==
    /\ script = TF /\ pc = "call" /\ idx <= n /\ budget > 0
    /\ started' = Append(started, idx)
    /\ results' = DictSet(results, CheckName(idx), FALSE)
    /\ outcomes' = Append(outcomes, Outcome("raise", -1, NotRun(idx)))
    /\ idx' = idx + 1
    /\ budget' = budget - 1
    /\ UNCHANGED <<script, pc, n, npmInstalled, staged, alive, trace, passed,
                   total, banner, exitCode>>

\* run_command_returns with a fault: the first failed check is run a second time.
run_command_retries ==
    /\ script = TF /\ pc = "running"
    /\ \E st \in StatusChoices(idx, npmInstalled) :
         LET rc == ShellStatus(idx, st)
         IN  /\ results' = DictSet(results, CheckName(idx), ReturnValue(rc))
             /\ outcomes' = IF rc = 0 \/ Len(started) > idx
                            THEN Append(outcomes, Outcome("exit", rc, st))
                            ELSE outcomes
             /\ idx' = IF rc = 0 \/ Len(started) > idx THEN idx + 1 ELSE idx
    /\ alive' = alive \ Procs(idx)
    /\ pc' = "call"
    /\ UNCHANGED <<script, n, budget, npmInstalled, staged, started, trace,
                   passed, total, banner, exitCode>>

\* run_command: the shell ends within the timeout, after every stage of its
\* job has ended; return result.returncode == 0.
run_command_returns ==
    /\ script = TF /\ pc = "running"
    /\ \E st \in StatusChoices(idx, npmInstalled) :
         LET rc == ShellStatus(idx, st)
         IN  /\ results' = DictSet(results, CheckName(idx), ReturnValue(rc))
             /\ outcomes' = Append(outcomes, Outcome("exit", rc, st))
    /\ alive' = alive \ Procs(idx)
    /\ idx' = idx + 1
    /\ pc' = "call"
    /\ UNCHANGED <<script, n, budget, npmInstalled, staged, started, trace,
                   passed, total, banner, exitCode>>

\* run_command_timeout with a fault: the timeout ends main()'s sequence of
\* checks, the later checks are not run.
run_command_timeout_aborts ==
    /\ script = TF /\ pc = "running" /\ budget > 0
    /\ alive' = alive \ {<<idx, "sh">>}
    /\ results' = DictSet(results, CheckName(idx), FALSE)
    /\ outcomes' = Append(outcomes, Outcome("timeout", -1, NotRun(idx)))
    /\ idx' = n + 1
    /\ budget' = budget - 1
    /\ pc' = "call"
    /\ UNCHANGED <<script, n, npmInstalled, staged, started, trace, passed,
                   total, banner, exitCode>>

\* run_command: the 60 s timeout expires; subprocess.run kills the shell it
\* started (the job the shell started is not signalled), waits for the
\* shell and raises TimeoutExpired: return False.
run_command_timeout ==
    /\ script = TF /\ pc = "running" /\ budget > 0
    /\ alive' = alive \ {<<idx, "sh">>}
    /\ results' = DictSet(results, CheckName(idx), FALSE)
    /\ outcomes' = Append(outcomes, Outcome("timeout", -1, NotRun(idx)))
    /\ idx' = idx + 1
    /\ budget' = budget - 1
    /\ pc' = "call"
    /\ UNCHANGED <<script, n, npmInstalled, staged, started, trace, passed,
                   total, banner, exitCode>>

\* A job whose shell was killed ends on its own, at any later time.
orphan_exits ==
    /\ script = TF
    /\ \E p \in alive :
         /\ p[2] = "job" /\ <<p[1], "sh">> \notin alive
         /\ alive' = alive \ {p}
    /\ UNCHANGED <<script, pc, n, budget, npmInstalled, staged, idx, results,
                   started, outcomes, trace, passed, total, banner, exitCode>>

\* main(): the summary, the closing banner and sys.exit(main()).
summary ==
    /\ script = TF /\ pc = "call" /\ idx > n
    /\ passed' = CountPassed(results)
    /\ total' = Len(results)
    /\ IF passed' = total'
       THEN banner' = "FRONTEND BUILD SUCCESSFUL" /\ exitCode' = 0
       ELSE banner' = "Some tests failed" /\ exitCode' = 1
    /\ pc' = "exited"
    /\ UNCHANGED <<script, n, budget, npmInstalled, staged, idx, results,
                   started, alive, outcomes, trace>>

TFNext ==
    \/ chdir_ok
    \/ chdir_raises
    \/ run_command_start
    \/ run_command_exception
    \/ run_command_returns
    \/ run_command_timeout
    \/ orphan_exits
    \/ summary

(***************************************************************************)
(* The git scripts.  A git command ends with an exit status, or             *)
(* subprocess.run raises (the working directory or the executable cannot    *)
(* be used, the process cannot be created).                                 *)
(***************************************************************************)
GitOutcomes == {Outcome("exit", 0, <<>>), Outcome("exit", 1, <<>>), Outcome("raise", -1, <<>>)}

\* 'git diff --cached --quiet': 0 when nothing is staged, 1 when something
\* is, 128 when git itself fails.
DiffOutcomes(isStaged) ==
    {Outcome("exit", IF isStaged THEN 1 ELSE 0, <<>>), Outcome("exit", 128, <<>>),
     Outcome("raise", -1, <<>>)}

Ran(cmd, o) == [cmd |-> cmd, kind |-> o.kind, rc |-> o.rc]

\* gp_run_command with a fault: any command that ran counts as a success.
gp_run_command_any(o) == o.kind = "exit"

\* git-push.py run_command: True iff the command ran and exited 0.
gp_run_command(o) == o.kind = "exit" /\ o.rc = 0

\* run_command('git status', ...): the result is not looked at.
gp_status ==
    /\ script = GP /\ pc = "gp_status"
    /\ \E o \in GitOutcomes : trace' = Append(trace, Ran("git status", o))
    /\ pc' = "gp_add"
    /\ UNCHANGED <<script, n, budget, npmInstalled, staged, idx, results, started,
                   alive, outcomes, passed, total, banner, exitCode>>

\* if not run_command('git add .', ...): return False
gp_add ==
    /\ script = GP /\ pc = "gp_add"
    /\ \E o \in GitOutcomes :
         /\ trace' = Append(trace, Ran("git add .", o))
         /\ IF gp_run_command(o)
            THEN pc' = "gp_diff" /\ exitCode' = exitCode
            ELSE pc' = "exited" /\ exitCode' = 1
    /\ UNCHANGED <<script, n, budget, npmInstalled, staged, idx, results, started,
                   alive, outcomes, passed, total, banner>>

\* subprocess.run('git diff --cached --quiet', ...) outside any try block:
\* returncode != 0 goes on to the commit, 0 returns True, an exception
\* leaves main() and the interpreter exits with code 1.
gp_diff ==
    /\ script = GP /\ pc = "gp_diff"
    /\ \E o \in DiffOutcomes(staged) :
         /\ trace' = Append(trace, Ran("git diff --cached --quiet", o))
         /\ IF o.kind = "raise"
            THEN pc' = "crashed" /\ exitCode' = 1 /\ banner' = banner
            ELSE IF o.rc # 0
            THEN pc' = "gp_commit" /\ exitCode' = exitCode /\ banner' = banner
            ELSE pc' = "exited" /\ exitCode' = 0 /\ banner' = "No changes to commit"
    /\ UNCHANGED <<script, n, budget, npmInstalled, staged, idx, results, started,
                   alive, outcomes, passed, total>>

\* if not run_command('git commit -m ...', ...): return False
gp_commit ==
    /\ script = GP /\ pc = "gp_commit"
    /\ \E o \in GitOutcomes :
         /\ trace' = Append(trace, Ran("git commit", o))
         /\ IF gp_run_command(o)
            THEN pc' = "gp_push" /\ exitCode' = exitCode
            ELSE pc' = "exited" /\ exitCode' = 1
    /\ UNCHANGED <<script, n, budget, npmInstalled, staged, idx, results, started,
                   alive, outcomes, passed, total, banner>>

\* if not run_command('git push origin medi-sync-ai-api', ...): try the alternate push
gp_push ==
    /\ script = GP /\ pc = "gp_push"
    /\ \E o \in GitOutcomes :
         /\ trace' = Append(trace, Ran("git push origin", o))
         /\ IF gp_run_command(o)
            THEN pc' = "exited" /\ exitCode' = 0
                 /\ banner' = "Production deployment complete"
            ELSE pc' = "gp_push2" /\ exitCode' = exitCode /\ banner' = banner
    /\ UNCHANGED <<script, n, budget, npmInstalled, staged, idx, results, started,
                   alive, outcomes, passed, total>>

\* run_command('git push --set-upstream origin ...'): the result is not
\* looked at; main() returns True.
gp_push_upstream ==
    /\ script = GP /\ pc = "gp_push2"
    /\ \E o \in GitOutcomes : trace' = Append(trace, Ran("git push --set-upstream origin", o))
    /\ pc' = "exited"
    /\ exitCode' = 0
    /\ banner' = "Production deployment complete"
    /\ UNCHANGED <<script, n, budget, npmInstalled, staged, idx, results, started,
                   alive, outcomes, passed, total>>

GPNext ==
    \/ gp_status
    \/ gp_add
    \/ gp_diff
    \/ gp_commit
    \/ gp_push
    \/ gp_push_upstream

\* check_true with a fault: check=True was left out.
check_left_out(o) == o.kind = "exit"

\* push-to-github.py: subprocess.run(..., check=True) returns only when the
\* command ran and exited 0; otherwise an exception reaches the except
\* clauses, which sys.exit(1).
check_true(o) == o.kind = "exit" /\ o.rc = 0

\* A command run without check=True: only an exception stops the script.
check_false(o) == o.kind = "exit"

\* One step of push-to-github.py's try block: run cmd, go on to next when ok.
p2g_step(cmd, o, ok, next) ==
    /\ trace' = Append(trace, Ran(cmd, o))
    /\ IF ok
       THEN pc' = next /\ exitCode' = exitCode
       ELSE pc' = "exited" /\ exitCode' = 1

p2g_chdir_ok ==
    /\ script = P2G /\ pc = "p2g_chdir"
    /\ pc' = "p2g_gitdir"
    /\ UNCHANGED <<script, n, budget, npmInstalled, staged, idx, results, started,
                   alive, outcomes, trace, passed, total, banner, exitCode>>

\* os.chdir(project_root) raises before the try block.
p2g_chdir_raises ==
    /\ script = P2G /\ pc = "p2g_chdir"
    /\ pc' = "crashed"
    /\ exitCode' = 1
    /\ UNCHANGED <<script, n, budget, npmInstalled, staged, idx, results, started,
                   alive, outcomes, trace, passed, total, banner>>

\* git rev-parse --git-dir: returncode != 0 is sys.exit(1).
p2g_gitdir ==
    /\ script = P2G /\ pc = "p2g_gitdir"
    /\ \E o \in GitOutcomes : p2g_step("git rev-parse --git-dir", o, o.kind = "exit" /\ o.rc = 0, "p2g_add")
    /\ UNCHANGED <<script, n, budget, npmInstalled, staged, idx, results, started,
                   alive, outcomes, passed, total, banner>>

p2g_add ==
    /\ script = P2G /\ pc = "p2g_add"
    /\ \E o \in GitOutcomes : p2g_step("git add -A", o, check_true(o), "p2g_status")
    /\ UNCHANGED <<script, n, budget, npmInstalled, staged, idx, results, started,
                   alive, outcomes, passed, total, banner>>

p2g_status ==
    /\ script = P2G /\ pc = "p2g_status"
    /\ \E o \in GitOutcomes : p2g_step("git status --porcelain", o, check_false(o), "p2g_commit")
    /\ UNCHANGED <<script, n, budget, npmInstalled, staged, idx, results, started,
                   alive, outcomes, passed, total, banner>>

p2g_commit ==
    /\ script = P2G /\ pc = "p2g_commit"
    /\ \E o \in GitOutcomes : p2g_step("git commit", o, check_true(o), "p2g_branch")
    /\ UNCHANGED <<script, n, budget, npmInstalled, staged, idx, results, started,
                   alive, outcomes, passed, total, banner>>

p2g_branch ==
    /\ script = P2G /\ pc = "p2g_branch"
    /\ \E o \in GitOutcomes : p2g_step("git rev-parse --abbrev-ref HEAD", o, check_false(o), "p2g_push")
    /\ UNCHANGED <<script, n, budget, npmInstalled, staged, idx, results, started,
                   alive, outcomes, passed, total, banner>>

\* git push origin <branch>, then the success messages and the end of the script.
p2g_push ==
    /\ script = P2G /\ pc = "p2g_push"
    /\ \E o \in GitOutcomes :
         /\ trace' = Append(trace, Ran("git push origin", o))
         /\ pc' = "exited"
         /\ IF check_true(o)
            THEN exitCode' = 0 /\ banner' = "Successfully pushed to GitHub!"
            ELSE exitCode' = 1 /\ banner' = banner
    /\ UNCHANGED <<script, n, budget, npmInstalled, staged, idx, results, started,
                   alive, outcomes, passed, total>>

P2GNext ==
    \/ p2g_chdir_ok
    \/ p2g_chdir_raises
    \/ p2g_gitdir
    \/ p2g_add
    \/ p2g_status
    \/ p2g_commit
    \/ p2g_branch
    \/ p2g_push

Init ==
    /\ script \in Scripts
    /\ n \in (IF script = TF THEN DeclaredCounts ELSE {0})
    /\ budget = (IF n <= MaxChecks THEN n ELSE MaxFaults)
    /\ npmInstalled \in (IF script = TF THEN BOOLEAN ELSE {TRUE})
    /\ staged \in (IF script = TF THEN {FALSE} ELSE BOOLEAN)
    /\ pc = (IF script = TF THEN "import" ELSE IF script = GP THEN "gp_status" ELSE "p2g_chdir")
    /\ idx = 1
    /\ results = <<>>
    /\ started = <<>>
    /\ alive = {}
    /\ outcomes = <<>>
    /\ trace = <<>>
    /\ passed = 0
    /\ total = 0
    /\ banner = ""
    /\ exitCode = -1

Next == TFNext \/ P2GNext \/ GPNext

Spec == Init /\ [][Next]_vars


(***************************************************************************)
(* Vocabulary of the properties.                                            *)
(***************************************************************************)
Recorded(k) == HasKey(results, CheckName(k))
Res(k) == results[Lookup(results, CheckName(k))].ok
Exited(k, rcs) == k \in DOMAIN outcomes /\ outcomes[k].kind = "exit" /\ outcomes[k].rc \in rcs
TimedOut(k) == k \in DOMAIN outcomes /\ outcomes[k].kind = "timeout"
Raised(k) == k \in DOMAIN outcomes /\ outcomes[k].kind = "raise"
IndexOf(name) == CHOOSE k \in DOMAIN Checklist : Checklist[k].name = name
\* The status that stage s of the check called name ended with (-1: not run).
StageOf(name, s) ==
    IF IndexOf(name) \in DOMAIN outcomes THEN outcomes[IndexOf(name)].st[s] ELSE -1
Finished == script = TF /\ pc = "exited"

Has(cmd) == \E i \in DOMAIN trace : trace[i].cmd = cmd
Times(cmd) == Cardinality({i \in DOMAIN trace : trace[i].cmd = cmd})
Succeeded(cmd) == \E i \in DOMAIN trace : trace[i].cmd = cmd /\ trace[i].kind = "exit" /\ trace[i].rc = 0
Failed(cmd) == \E i \in DOMAIN trace : trace[i].cmd = cmd /\ ~(trace[i].kind = "exit" /\ trace[i].rc = 0)
Before(a, b) == \A j \in DOMAIN trace : trace[j].cmd = b => \E i \in 1 .. (j - 1) : trace[i].cmd = a
Ended == pc \in {"exited", "crashed"}

\* C1: when test-frontend.py ends through sys.exit(main()), whatever the checks'
\* outcomes were (exit 0, non-zero exit, timeout, exception), the exit code is 0
\* if every declared check was recorded as passed and 1 otherwise; three checks
\* with only the 2nd failing give 2/3 and exit 1, zero checks give 0/0 and exit 0.
C1_ExitCodeIffAllPassed ==
    Finished =>
        /\ exitCode = (IF \A k \in 1 .. n : Recorded(k) /\ Res(k) THEN 0 ELSE 1)
        /\ (n = 3 /\ Exited(1, {0}) /\ Exited(2, {1, 127}) /\ Exited(3, {0})
              => passed = 2 /\ total = 3 /\ exitCode = 1)
        /\ (n = 0 => passed = 0 /\ total = 0 /\ exitCode = 0)

C1_Witness ==
    /\ Finished /\ n = 3 /\ Exited(1, {0}) /\ Exited(2, {1}) /\ Exited(3, {0})
    /\ passed = 2 /\ total = 3 /\ exitCode = 1

\* C2: when the summary is printed the results hold exactly one result per
\* declared check, so the tally's total is the number of declared checks,
\* however many of them failed, timed out or raised.
C2_OneResultPerCheck ==
    Finished =>
        /\ total = n
        /\ Len(results) = n
        /\ \A k \in 1 .. n :
             Cardinality({i \in DOMAIN results : results[i].name = CheckName(k)}) = 1

C2_Witness ==
    /\ Finished /\ n = NumChecks /\ total = NumChecks /\ passed < total
    /\ \E k \in 1 .. n : TimedOut(k) \/ Raised(k)

\* C3: a check whose command ended within the timeout is recorded as passed
\* exactly when the command's exit status is 0.
C3_PassedIffExitZero ==
    script = TF =>
        \A k \in DOMAIN outcomes :
            outcomes[k].kind = "exit" => Recorded(k) /\ (Res(k) <=> outcomes[k].rc = 0)

C3_Witness ==
    /\ script = TF
    /\ \E j, k \in DOMAIN outcomes :
         /\ Exited(j, {0}) /\ Res(j)
         /\ Exited(k, {1, 127}) /\ ~Res(k)

\* C4: a check that timed out is recorded as failed, and every check declared
\* after it is still started and has its own result when main() ends.
C4_TimeoutDoesNotAbort ==
    script = TF =>
        \A k \in DOMAIN outcomes :
            outcomes[k].kind = "timeout" =>
                /\ Recorded(k) /\ ~Res(k)
                /\ pc = "exited" =>
                     \A j \in (k + 1) .. n :
                        /\ Recorded(j)
                        /\ j \in DOMAIN outcomes
                        /\ \E i \in DOMAIN started : started[i] = j

C4_Witness ==
    /\ Finished
    /\ \E k \in 1 .. (n - 1) : TimedOut(k) /\ ~Res(k) /\ Exited(k + 1, {0}) /\ Res(k + 1)

\* Check k could not be run: subprocess.run raised, or a stage's executable
\* was not found.
InvocationFailed(k) ==
    /\ k \in DOMAIN outcomes
    /\ \/ outcomes[k].kind = "raise"
       \/ \E s \in StagesOf(k) : outcomes[k].st[s] = 127

\* C5 (as claimed): a missing executable or a missing working directory is
\* caught by run_command: no exception ends the process, the affected check
\* is recorded as not passed, the remaining checks run and the run ends
\* through the summary with exit code 1.
C5_CaughtAtRunner ==
    script = TF =>
        /\ pc # "crashed"
        /\ \A k \in DOMAIN outcomes : InvocationFailed(k) => Recorded(k) /\ ~Res(k)
        /\ (pc = "exited" /\ \E k \in DOMAIN outcomes : InvocationFailed(k))
              => Len(results) = n /\ exitCode = 1

C7_OneProcessAtATime ==
    script = TF =>
        /\ Cardinality({p \in alive : p[2] = "sh"}) <= 1
        /\ pc = "running" => \A p \in alive : p[1] = idx

\* C8 (as claimed): the success banner and exit code 0 come only in runs in
\* which npm run lint and npm run build exited 0 and the three existence
\* tests succeeded, and a failing lint or build or a missing file makes its
\* check fail.
C8_BannerMeansValidated ==
    script = TF =>
        /\ (pc = "exited" /\ n = NumChecks /\ banner = "FRONTEND BUILD SUCCESSFUL") =>
              /\ exitCode = 0
              /\ StageOf("lint", "npm run lint") = 0
              /\ StageOf("build", "npm run build") = 0
              /\ StageOf("env_check", "test -f .env.local") = 0
              /\ StageOf("build_output", "test -d .next") = 0
              /\ StageOf("types_check", "test -f types/api.ts") = 0
        /\ \A c \in {<<"lint", "npm run lint">>, <<"build", "npm run build">>,
                     <<"env_check", "test -f .env.local">>,
                     <<"build_output", "test -d .next">>,
                     <<"types_check", "test -f types/api.ts">>} :
              StageOf(c[1], c[2]) > 0 => ~Res(IndexOf(c[1]))

\* The staging command of each git script.
AddCmd == IF script = GP THEN "git add ." ELSE "git add -A"
DiffNonZero == \E i \in DOMAIN trace : /\ trace[i].cmd = "git diff --cached --quiet"
                                       /\ trace[i].kind = "exit" /\ trace[i].rc # 0
DiffRaised == \E i \in DOMAIN trace : /\ trace[i].cmd = "git diff --cached --quiet"
                                      /\ trace[i].kind = "raise"

CheckedSteps == {"git rev-parse --git-dir", AddCmd, "git commit", "git push origin"}
FailedAt(i) == trace[i].cmd \in CheckedSteps /\ ~(trace[i].kind = "exit" /\ trace[i].rc = 0)

\* C10 (as claimed): in git-push.py the first failing step among the
\* repository check, staging, git commit and git push is the last git
\* command of the run, which ends with exit code 1; the success message is
\* printed only when add, commit and push all exited 0; a failing commit
\* exits 1 without a push.
C10_AsClaimed ==
    script = GP =>
        /\ \A i \in DOMAIN trace : FailedAt(i) => i = Len(trace) /\ pc = "exited" /\ exitCode = 1
        /\ banner = "Successfully pushed to GitHub!" =>
              Succeeded(AddCmd) /\ Succeeded("git commit") /\ Succeeded("git push origin")
        /\ Failed("git commit") => ~Has("git push origin") /\ exitCode = 1

\* C10 (amended): in push-to-github.py the first failing step among the
\* repository check, git add -A, git commit and git push is the last git
\* command of the run, which ends with exit code 1; the success message is
\* printed only when add, commit and push all exited 0; a failing commit
\* exits 1 without a push.
C10_Amended ==
    script = P2G =>
        /\ \A i \in DOMAIN trace : FailedAt(i) => i = Len(trace) /\ pc = "exited" /\ exitCode = 1
        /\ banner = "Successfully pushed to GitHub!" =>
              /\ Succeeded("git add -A") /\ Succeeded("git commit")
              /\ Succeeded("git push origin")
        /\ Failed("git commit") => ~Has("git push origin") /\ exitCode = 1

C10_Witness ==
    /\ script = P2G /\ pc = "exited" /\ exitCode = 1
    /\ Succeeded("git add -A")
    /\ \E i \in DOMAIN trace : trace[i].cmd = "git commit" /\ trace[i].kind = "exit" /\ trace[i].rc = 1
    /\ ~Has("git push origin")

====
